---- MODULE Spec2Model ----
(***************************************************************************)
(* x-backup (src/index.js): generator of a static tweet archive and the    *)
(* filter/sort/search script embedded in the generated page.               *)
(*                                                                         *)
(* JavaScript strings are TLA+ strings (Len, SubSeq and \o act on them),   *)
(* JavaScript 0-based indices are kept and converted where SubSeq is used. *)
(***************************************************************************)
EXTENDS Integers, Sequences, FiniteSets, TLC

VARIABLES
    rwTweet,        \* formatTweetText: the tweet handed to the rewriter
    formatted,      \* formatTweetText: its result for the current listing
    firstFormatted, \* formatTweetText: its result for the first listing
    rwPc,           \* formatTweetText: "ready", "done" (run once), "relisted"
    clsTweet,       \* getTweetType: the record handed to the classifier
    tweetType,      \* getTweetType: its result, "unset" before the call
    genTweets,      \* generateHtml: the tweets argument
    html,           \* generateHtml: what the call produced; the loaded page
    tz,             \* page: the viewer's offset from UTC, in seconds east
    activeType,     \* page: let activeType
    searchValue,    \* page: searchInput.value
    dateFromValue,  \* page: dateFrom.value, "" or a calendar day
    dateToValue,    \* page: dateTo.value, "" or a calendar day
    minLikesValue,  \* page: minLikesSlider.value
    minLikesLabel,  \* page: minLikesValue.textContent
    sortValue,      \* page: sortBy.value
    hidden,         \* page: for each element of tweets, whether it has class hidden
    domOrder,       \* page: the articles of the container, as positions of tweets
    noResultsHidden,\* page: whether #no-results has class hidden
    timers,         \* page: the active timers of the window, [id, left]
    searchTimeout,  \* page: let searchTimeout (0 while undefined)
    stale,          \* history: the search box changed since filterAndSort last ran
    tkText,         \* tokenize / stem: the argument
    tkTokens,       \* tokenize: the array returned; stem: the word returned, alone
    tkPc,           \* tokenize / stem: "ready", "tokenized", "stemmed"
    mainPc,         \* main: the statement it is at, "exited" at the end
    source,         \* main: what is at <export>/data/tweets.js or <export>/tweets.js
    mediaDir,       \* main: the media directory found and its entries, or none
    toCopy,         \* main: the entries the copy loop has not reached yet
    disk,           \* main: what exists at the output path
    exitCode        \* main: exit status of the process, Running before it ends

rewriteVars == <<rwTweet, formatted, firstFormatted, rwPc>>
classifyVars == <<clsTweet, tweetType>>
genVars == <<genTweets, html>>
controlVars == <<activeType, searchValue, dateFromValue, dateToValue,
                 minLikesValue, minLikesLabel, sortValue>>
displayVars == <<hidden, domOrder, noResultsHidden>>
timerVars == <<timers, searchTimeout>>
pageVars == <<tz, controlVars, displayVars, timerVars, stale>>
tokenizeVars == <<tkText, tkTokens, tkPc>>
mainVars == <<mainPc, source, mediaDir, toCopy, disk, exitCode>>
vars == <<rewriteVars, classifyVars, genVars, pageVars, tokenizeVars, mainVars>>

(***************************************************************************)
(* Generic helpers                                                         *)
(***************************************************************************)
Min(a, b) == IF a < b THEN a ELSE b
Max(a, b) == IF a > b THEN a ELSE b

Range(s) == {s[i] : i \in DOMAIN s}

\* All orderings of the sequence s.
Perms(s) ==
    {p \in [DOMAIN s -> Range(s)] :
        \E f \in [DOMAIN s -> DOMAIN s] :
            /\ \A i, j \in DOMAIN s : i # j => f[i] # f[j]
            /\ \A i \in DOMAIN s : p[i] = s[f[i]]}

\* All sequences without repetition of at most n members of S.
RECURSIVE Arrangements(_, _)
Arrangements(S, n) ==
    IF n = 0 THEN {<<>>}
    ELSE LET shorter == Arrangements(S, n - 1)
         IN shorter \cup
            UNION {{Append(q, x) : x \in S \ Range(q)} :
                       q \in {r \in shorter : Len(r) = n - 1}}

(***************************************************************************)
(* String primitives of JavaScript used by src/index.js                    *)
(***************************************************************************)
\* String.prototype.slice(start, end) on 0-based indices: a negative index
\* counts from the end, every index is clamped to [0, length].
Slice(s, start, end) ==
    LET len  == Len(s)
        from == IF start < 0 THEN Max(len + start, 0) ELSE Min(start, len)
        to   == IF end < 0 THEN Max(len + end, 0) ELSE Min(end, len)
    IN IF from >= to THEN "" ELSE SubSeq(s, from + 1, to)

\* String.prototype.slice(start): to the end of the string.
SliceFrom(s, start) == Slice(s, start, Len(s))

\* String.prototype.replace(/c/g, r) for a one-character pattern c.
\* (The string is halved at each step to keep the evaluation shallow.)
RECURSIVE ReplaceAll(_, _, _)
ReplaceAll(s, c, r) ==
    IF Len(s) = 0 THEN ""
    ELSE IF Len(s) = 1 THEN (IF s = c THEN r ELSE s)
    ELSE LET half == Len(s) \div 2
         IN ReplaceAll(SubSeq(s, 1, half), c, r)
                \o ReplaceAll(SubSeq(s, half + 1, Len(s)), c, r)

\* String.prototype.startsWith(p).
StartsWith(s, p) == Len(s) >= Len(p) /\ SubSeq(s, 1, Len(p)) = p

\* Number of occurrences of the one-character string c in s.
CountChar(s, c) == Cardinality({i \in 1..Len(s) : SubSeq(s, i, i) = c})

(***************************************************************************)
(* escapeHtml                                                              *)
(***************************************************************************)
escapeHtml(text) ==
    ReplaceAll(
      ReplaceAll(
        ReplaceAll(
          ReplaceAll(
            ReplaceAll(text, "&", "&amp;"),
            "<", "&lt;"),
          ">", "&gt;"),
        "\"", "&quot;"),
      "'", "&#039;")

(***************************************************************************)
(* formatTweetText                                                         *)
(*                                                                         *)
(* A tweet is [full_text, entities]; entities holds the four collections   *)
(* user_mentions, urls, hashtags, media.  An entity is a record            *)
(*   [kind, hasIndices, s, e, a, b]                                        *)
(* where s, e are parseInt(indices[0]), parseInt(indices[1]); hasIndices   *)
(* is FALSE when the entity has no indices array (indices[0] then throws   *)
(* a TypeError); a is screen_name / expanded_url / hashtag text and b is   *)
(* display_url.                                                            *)
(***************************************************************************)
Mention(s, e, name) ==
    [kind |-> "mention", hasIndices |-> TRUE, s |-> s, e |-> e, a |-> name, b |-> ""]
Url(s, e, expanded, display) ==
    [kind |-> "url", hasIndices |-> TRUE, s |-> s, e |-> e, a |-> expanded, b |-> display]
Hashtag(s, e, tag) ==
    [kind |-> "hashtag", hasIndices |-> TRUE, s |-> s, e |-> e, a |-> tag, b |-> ""]
Media(s, e) ==
    [kind |-> "media", hasIndices |-> TRUE, s |-> s, e |-> e, a |-> "", b |-> ""]
NoIndices(ent) == [ent EXCEPT !.hasIndices = FALSE]

\* The replacement string built for one entity (lines 60, 75, 84, 92).
Replacement(ent) ==
    CASE ent.kind = "mention" ->
           "<a href=\"https://twitter.com/" \o ent.a
               \o "\" target=\"_blank\" rel=\"noopener\" class=\"mention\">@"
               \o ent.a \o "</a>"
      [] ent.kind = "url" ->
           "<a href=\"" \o escapeHtml(ent.a)
               \o "\" target=\"_blank\" rel=\"noopener\" class=\"link\">"
               \o escapeHtml(ent.b) \o "</a>"
      [] ent.kind = "hashtag" ->
           "<a href=\"https://twitter.com/hashtag/" \o ent.a
               \o "\" target=\"_blank\" rel=\"noopener\" class=\"hashtag\">#"
               \o ent.a \o "</a>"
      [] OTHER -> ""

\* The replacements array in the order the four loops push it.
CollectReplacements(entities) ==
    LET all == entities.user_mentions \o entities.urls
                   \o entities.hashtags \o entities.media
    IN [i \in DOMAIN all |->
           [start |-> all[i].s, end |-> all[i].e, replacement |-> Replacement(all[i])]]

\* Insertion of r into a list already sorted by start descending, behind
\* every element whose start is >= r.start (a stable sort).
RECURSIVE InsertByStartDesc(_, _)
InsertByStartDesc(sorted, r) ==
    IF sorted = <<>> THEN <<r>>
    ELSE IF Head(sorted).start >= r.start
         THEN <<Head(sorted)>> \o InsertByStartDesc(Tail(sorted), r)
         ELSE <<r>> \o sorted

RECURSIVE SortFrom(_, _)
SortFrom(sorted, rest) ==
    IF rest = <<>> THEN sorted
    ELSE SortFrom(InsertByStartDesc(sorted, Head(rest)), Tail(rest))

\* Mutant: the replacements are applied in the order they were collected.
SortReplacementsUnsorted(replacements) == replacements

\* replacements.sort((a, b) => b.start - a.start): Array.prototype.sort is
\* stable, the comparator orders by start descending.
SortReplacements(replacements) == SortFrom(<<>>, replacements)

\* The splice loop: text = text.slice(0, start) + replacement + text.slice(end).
RECURSIVE ApplyReplacements(_, _)
ApplyReplacements(text, replacements) ==
    IF replacements = <<>> THEN text
    ELSE LET r == Head(replacements)
         IN ApplyReplacements(
                Slice(text, 0, r.start) \o r.replacement \o SliceFrom(text, r.end),
                Tail(replacements))

TypeError == [threw |-> TRUE, text |-> ""]
Returned(text) == [threw |-> FALSE, text |-> text]

AllEntities(t) ==
    t.entities.user_mentions \o t.entities.urls
        \o t.entities.hashtags \o t.entities.media

formatTweetText(t) ==
    IF \E i \in DOMAIN AllEntities(t) : ~AllEntities(t)[i].hasIndices
    THEN TypeError
    ELSE Returned(
           ReplaceAll(
             ApplyReplacements(t.full_text,
                               SortReplacements(CollectReplacements(t.entities))),
             "\n", "<br>"))

(***************************************************************************)
(* getTweetType                                                            *)
(*                                                                         *)
(* An optional field of a record is Absent, Null (present without a value) *)
(* or a value; JavaScript truthiness holds of a value only.                *)
(***************************************************************************)
Absent == "absent"
Null == "null"
Types == {"post", "reply", "retweet"}
Truthy(v) == v # Absent /\ v # Null /\ v # ""

\* Mutant: the reply test is made before the retweet test.
getTweetTypeReplyFirst(t) ==
    IF Truthy(t.in_reply_to_status_id_str) \/ Truthy(t.in_reply_to_user_id_str)
    THEN "reply"
    ELSE IF StartsWith(t.full_text, "RT @") \/ Truthy(t.retweeted_status)
         THEN "retweet"
         ELSE "post"

getTweetType(t) ==
    IF StartsWith(t.full_text, "RT @") \/ Truthy(t.retweeted_status)
    THEN "retweet"
    ELSE IF Truthy(t.in_reply_to_status_id_str) \/ Truthy(t.in_reply_to_user_id_str)
         THEN "reply"
         ELSE "post"

(***************************************************************************)
(* Conversions used by generateHtml and by the page script                 *)
(***************************************************************************)
NaN == [nan |-> TRUE, n |-> 0]
Num(n) == [nan |-> FALSE, n |-> n]

\* x || 0 for a number x.
OrZero(x) == IF x.nan THEN 0 ELSE x.n

Digits == "0123456789"
DigitChars == {SubSeq(Digits, i, i) : i \in 1..10}
DigitValues ==
    [c \in DigitChars |-> (CHOOSE i \in 1..10 : SubSeq(Digits, i, i) = c) - 1]
IsDigit(c) == c \in DigitChars
DigitValue(c) == DigitValues[c]

RECURSIVE DigitsValue(_, _)
DigitsValue(acc, s) ==
    IF Len(s) = 0 \/ ~IsDigit(SubSeq(s, 1, 1)) THEN acc
    ELSE DigitsValue(10 * acc + DigitValue(SubSeq(s, 1, 1)), SubSeq(s, 2, Len(s)))

\* parseInt(s): an optional sign, then the longest run of decimal digits;
\* NaN when there is no digit.
ParseInt(s) ==
    LET neg  == Len(s) > 0 /\ SubSeq(s, 1, 1) = "-"
        body == IF neg THEN SubSeq(s, 2, Len(s)) ELSE s
    IN IF Len(body) = 0 \/ ~IsDigit(SubSeq(body, 1, 1)) THEN NaN
       ELSE Num(IF neg THEN 0 - DigitsValue(0, body) ELSE DigitsValue(0, body))

\* `${n}` for an integer n.
NumberToString(n) == ToString(n)

UpperCase == "ABCDEFGHIJKLMNOPQRSTUVWXYZ"
LowerCase == "abcdefghijklmnopqrstuvwxyz"
UpperLetters == {SubSeq(UpperCase, i, i) : i \in 1..26}
LowerLetters == {SubSeq(LowerCase, i, i) : i \in 1..26}
LowerOf ==
    [c \in UpperLetters |->
        SubSeq(LowerCase, CHOOSE i \in 1..26 : SubSeq(UpperCase, i, i) = c,
                          CHOOSE i \in 1..26 : SubSeq(UpperCase, i, i) = c)]
LowerChar(c) == IF c \in UpperLetters THEN LowerOf[c] ELSE c

\* String.prototype.toLowerCase().
RECURSIVE ToLowerCase(_)
ToLowerCase(s) ==
    IF Len(s) = 0 THEN ""
    ELSE IF Len(s) = 1 THEN LowerChar(s)
    ELSE LET half == Len(s) \div 2
         IN ToLowerCase(SubSeq(s, 1, half)) \o ToLowerCase(SubSeq(s, half + 1, Len(s)))

\* String.prototype.replace(/<[^>]+>/g, ""): the leftmost "<" that is followed
\* by at least one character other than ">" and then a ">" starts a match,
\* which ends at the first ">" behind it.
RECURSIVE StripTags(_)
StripTags(s) ==
    LET closes(i) == {j \in (i + 1)..Len(s) : SubSeq(s, j, j) = ">"}
        firstClose(i) == CHOOSE j \in closes(i) : \A k \in closes(i) : j <= k
        opens == {i \in 1..Len(s) :
                     /\ SubSeq(s, i, i) = "<"
                     /\ closes(i) # {}
                     /\ firstClose(i) >= i + 2}
    IN IF opens = {} THEN s
       ELSE LET i == CHOOSE k \in opens : \A m \in opens : k <= m
            IN SubSeq(s, 1, i - 1) \o StripTags(SubSeq(s, firstClose(i) + 1, Len(s)))

\* The instants of the model are seconds since the epoch (the created_at
\* format of line 35 has no finer part); a Date is Num(instant) or NaN, the
\* invalid date.
\* new Date(dateStr) for the created_at strings of the model.
parseTweetDate(dateStr) ==
    CASE dateStr = "Sun Aug 05 00:00:00 +0000 2018" -> Num(1533427200)
      [] dateStr = "Mon Aug 06 00:51:29 +0000 2018" -> Num(1533516689)
      [] dateStr = "Mon Aug 06 23:30:00 +0000 2018" -> Num(1533598200)
      [] dateStr = "Tue Aug 07 12:00:00 +0000 2018" -> Num(1533643200)
      [] OTHER -> NaN

\* The calendar days of the model and the instant each begins at in UTC.
Days == {"2018-08-05", "2018-08-06", "2018-08-07"}
DayStart(day) ==
    CASE day = "2018-08-05" -> 1533427200
      [] day = "2018-08-06" -> 1533513600
      [] day = "2018-08-07" -> 1533600000
SecondsPerDay == 24 * 60 * 60

\* d.toISOString().split("T")[0]: the UTC calendar day of an instant.
formatDate(instant) ==
    CHOOSE day \in Days :
        DayStart(day) <= instant /\ instant < DayStart(day) + SecondsPerDay

(***************************************************************************)
(* generateHtml                                                            *)
(*                                                                         *)
(* A tweet is [id_str, full_text, created_at, favorite_count,              *)
(* retweeted_status, in_reply_to_status_id_str, in_reply_to_user_id_str,   *)
(* entities].  The media block, the displayed date and the retweet count   *)
(* of an article are left out: nothing reads them afterwards.              *)
(***************************************************************************)
\* Lines 150-160: the tweets whose created_at parses, in input order.
TweetsWithDates(tweets) ==
    LET dated == [i \in DOMAIN tweets |->
                     [date |-> parseTweetDate(tweets[i].created_at), tweet |-> tweets[i]]]
    IN SelectSeq(dated, LAMBDA x : ~x.date.nan)

\* Mutant: an element is inserted in front of the elements with an equal date.
RECURSIVE InsertByDateDescUnstable(_, _)
InsertByDateDescUnstable(sorted, x) ==
    IF sorted = <<>> THEN <<x>>
    ELSE IF Head(sorted).date.n > x.date.n
         THEN <<Head(sorted)>> \o InsertByDateDescUnstable(Tail(sorted), x)
         ELSE <<x>> \o sorted

\* Insertion behind every element whose date is >= x.date (a stable sort).
RECURSIVE InsertByDateDesc(_, _)
InsertByDateDesc(sorted, x) ==
    IF sorted = <<>> THEN <<x>>
    ELSE IF Head(sorted).date.n >= x.date.n
         THEN <<Head(sorted)>> \o InsertByDateDesc(Tail(sorted), x)
         ELSE <<x>> \o sorted

\* Line 162: tweetsWithDates.sort((a, b) => b.date.getTime() - a.date.getTime()).
RECURSIVE SortByDateDesc(_, _)
SortByDateDesc(sorted, rest) ==
    IF rest = <<>> THEN sorted
    ELSE SortByDateDesc(InsertByDateDesc(sorted, Head(rest)), Tail(rest))

Likes(t) == OrZero(ParseInt(t.favorite_count))

\* Lines 210-222: the article element with its data attributes.
Article(x) ==
    [timestamp |-> NumberToString(x.date.n),
     id        |-> x.tweet.id_str,
     type      |-> getTweetType(x.tweet),
     likes     |-> NumberToString(Likes(x.tweet)),
     content   |-> formatTweetText(x.tweet).text]

\* Lines 227-233: the search index entry.
IndexEntry(x) ==
    [id        |-> x.tweet.id_str,
     text      |-> ToLowerCase(StripTags(x.tweet.full_text)),
     timestamp |-> x.date.n,
     type      |-> getTweetType(x.tweet)]

RECURSIVE MaxLikesOf(_, _)
MaxLikesOf(maxLikes, list) ==
    IF list = <<>> THEN maxLikes
    ELSE MaxLikesOf(IF Likes(Head(list).tweet) > maxLikes
                    THEN Likes(Head(list).tweet) ELSE maxLikes,
                    Tail(list))

\* Line 165: the page returned when no tweet is left.
EmptyPage == [kind |-> "empty", body |-> "No tweets found."]

\* An exception of formatTweetText leaves generateHtml.
GenerateThrew == [kind |-> "threw"]

\* Lines 168-772: the archive page, by the parts the script reads.
ArchivePage(list) ==
    [kind        |-> "archive",
     tweetsHtml  |-> [i \in DOMAIN list |-> Article(list[i])],
     searchIndex |-> [i \in DOMAIN list |-> IndexEntry(list[i])],
     typeCounts  |-> [t \in Types |->
                        Cardinality({i \in DOMAIN list : getTweetType(list[i].tweet) = t})],
     maxLikes    |-> MaxLikesOf(0, list),
     dateFrom    |-> formatDate(list[Len(list)].date.n),
     dateTo      |-> formatDate(list[1].date.n),
     noResultsHidden |-> TRUE]

\* Mutant: the empty case of lines 164-166 is missing, so that line 169 reads
\* the date of an element that does not exist.
generateHtmlNoEmptyCase(tweets) ==
    LET list == SortByDateDesc(<<>>, TweetsWithDates(tweets))
    IN IF Len(list) = 0 THEN GenerateThrew
       ELSE IF \E i \in DOMAIN list : formatTweetText(list[i].tweet).threw
            THEN GenerateThrew
            ELSE ArchivePage(list)

generateHtml(tweets) ==
    LET list == SortByDateDesc(<<>>, TweetsWithDates(tweets))
    IN IF Len(list) = 0 THEN EmptyPage
       ELSE IF \E i \in DOMAIN list : formatTweetText(list[i].tweet).threw
            THEN GenerateThrew
            ELSE ArchivePage(list)

(***************************************************************************)
(* The page script: stem, tokenize, filterAndSort                          *)
(***************************************************************************)
EndsWith(s, suffix) ==
    Len(s) >= Len(suffix) /\ SubSeq(s, Len(s) - Len(suffix) + 1, Len(s)) = suffix

\* String.prototype.includes(part).
Includes(s, part) ==
    \E i \in 0..(Len(s) - Len(part)) : SubSeq(s, i + 1, i + Len(part)) = part

IsAlnum(c) == c \in DigitChars \/ c \in LowerLetters

\* String.prototype.replace(/[^a-z0-9]/g, '').
RECURSIVE KeepAlnum(_)
KeepAlnum(s) ==
    IF Len(s) = 0 THEN ""
    ELSE IF Len(s) = 1 THEN (IF IsAlnum(s) THEN s ELSE "")
    ELSE LET half == Len(s) \div 2
         IN KeepAlnum(SubSeq(s, 1, half)) \o KeepAlnum(SubSeq(s, half + 1, Len(s)))

\* Mutant: the rule for "s" without its exception for "ss".
stemNoDoubleS(word) ==
    LET w == KeepAlnum(ToLowerCase(word))
    IN IF EndsWith(w, "ing") THEN Slice(w, 0, -3)
       ELSE IF EndsWith(w, "ed") THEN Slice(w, 0, -2)
       ELSE IF EndsWith(w, "es") THEN Slice(w, 0, -2)
       ELSE IF EndsWith(w, "s") THEN Slice(w, 0, -1)
       ELSE IF EndsWith(w, "ly") THEN Slice(w, 0, -2)
       ELSE w

stem(word) ==
    LET w == KeepAlnum(ToLowerCase(word))
    IN IF EndsWith(w, "ing") THEN Slice(w, 0, -3)
       ELSE IF EndsWith(w, "ed") THEN Slice(w, 0, -2)
       ELSE IF EndsWith(w, "es") THEN Slice(w, 0, -2)
       ELSE IF EndsWith(w, "s") /\ ~EndsWith(w, "ss") THEN Slice(w, 0, -1)
       ELSE IF EndsWith(w, "ly") THEN Slice(w, 0, -2)
       ELSE w

Spaces == {" ", "\n", "\t"}
IsSpace(c) == c \in Spaces

\* String.prototype.split(/\s+/): the pieces between the runs of white space
\* (an empty piece in front of a leading run and behind a trailing one).
RECURSIVE SplitSpaces(_)
SplitSpaces(s) ==
    LET spaces == {i \in 1..Len(s) : IsSpace(SubSeq(s, i, i))}
    IN IF spaces = {} THEN <<s>>
       ELSE LET i == CHOOSE k \in spaces : \A m \in spaces : k <= m
                after == {j \in (i + 1)..Len(s) : ~IsSpace(SubSeq(s, j, j))}
                rest == IF after = {} THEN ""
                        ELSE SubSeq(s, CHOOSE k \in after : \A m \in after : k <= m, Len(s))
            IN <<SubSeq(s, 1, i - 1)>> \o SplitSpaces(rest)

tokenize(text) ==
    LET pieces == SplitSpaces(ToLowerCase(text))
        stems  == [i \in DOMAIN pieces |-> stem(pieces[i])]
    IN SelectSeq(stems, LAMBDA w : Len(w) > 0)

\* String.prototype.trim().
RECURSIVE Trim(_)
Trim(s) ==
    IF Len(s) > 0 /\ IsSpace(SubSeq(s, 1, 1)) THEN Trim(SubSeq(s, 2, Len(s)))
    ELSE IF Len(s) > 0 /\ IsSpace(SubSeq(s, Len(s), Len(s)))
         THEN Trim(SubSeq(s, 1, Len(s) - 1))
         ELSE s

(***************************************************************************)
(* Bounds                                                                  *)
(***************************************************************************)
\* Largest number of entity spans attached to one tweet.
MaxSpans == 2

\* Largest number of tweets handed to generateHtml.
MaxTweets == 3

\* Largest number of words in a text handed to tokenize.
MaxWords == 2

(***************************************************************************)
(* Specification of the rewriter: formatTweetText on one tweet, run again  *)
(* after the spans of its collections have been listed in another order.   *)
(***************************************************************************)
RewriteTexts == {"hi @al #t u", "a<b \"c\" &d", "x\ny z'"}

\* Spans a tweet may carry: well-formed ones, two mentions with the same
\* start, an empty span, a reversed one, out-of-range and negative ones and
\* an entity without an indices array.
EntityPool ==
    { Mention(3, 6, "al"), Mention(3, 5, "bo"), Mention(0, 2, "a<b"),
      Mention(0, 0, "al"), Mention(6, 3, "al"), Mention(9, 20, "al"),
      NoIndices(Mention(0, 0, "al")),
      Url(10, 11, "h?a&b", "d<e"), Url(4, 8, "u", "v"),
      Hashtag(7, 9, "t"), Hashtag(-2, 2, "t"), Hashtag(12, 14, "t"),
      Media(10, 11), Media(0, 2) }

OfKind(list, kind) == SelectSeq(list, LAMBDA ent : ent.kind = kind)

TweetOf(text, list) ==
    [full_text |-> text,
     entities  |-> [user_mentions |-> OfKind(list, "mention"),
                    urls          |-> OfKind(list, "url"),
                    hashtags      |-> OfKind(list, "hashtag"),
                    media         |-> OfKind(list, "media")]]

\* The tweets obtained from t by listing the spans of each collection in
\* another order.
Relistings(t) ==
    {[t EXCEPT !.entities = [user_mentions |-> m, urls |-> u,
                             hashtags |-> h, media |-> d]] :
        m \in Perms(t.entities.user_mentions), u \in Perms(t.entities.urls),
        h \in Perms(t.entities.hashtags), d \in Perms(t.entities.media)}

RewriteIdle ==
    /\ rwTweet = TweetOf("", <<>>)
    /\ formatted = Returned("")
    /\ firstFormatted = Returned("")
    /\ rwPc = "idle"

ClassifyIdle ==
    /\ clsTweet = [full_text |-> "", retweeted_status |-> Absent,
                   in_reply_to_status_id_str |-> Absent,
                   in_reply_to_user_id_str |-> Absent]
    /\ tweetType = "unset"

GenIdle ==
    /\ genTweets = <<>>
    /\ html = [kind |-> "none"]

PageIdle ==
    /\ tz = 0
    /\ activeType = "post"
    /\ searchValue = ""
    /\ dateFromValue = ""
    /\ dateToValue = ""
    /\ minLikesValue = "0"
    /\ minLikesLabel = "0"
    /\ sortValue = "date"
    /\ hidden = <<>>
    /\ domOrder = <<>>
    /\ noResultsHidden = TRUE
    /\ timers = {}
    /\ searchTimeout = 0
    /\ stale = FALSE

TokenizeIdle ==
    /\ tkText = ""
    /\ tkTokens = <<>>
    /\ tkPc = "idle"

\* Nothing exists at the output path.
EmptyDisk ==
    [outputDir |-> FALSE, imagesDir |-> FALSE, images |-> {},
     indexWritten |-> FALSE, indexHtml |-> [kind |-> "none"]]

\* The exit status of a process that has not ended.
Running == 0 - 1

\* mediaDir = null: the export has no media directory.
NoMediaDir == [found |-> FALSE, entries |-> {}]

MainIdle ==
    /\ mainPc = "idle"
    /\ source = [state |-> "missing"]
    /\ mediaDir = NoMediaDir
    /\ toCopy = {}
    /\ disk = EmptyDisk
    /\ exitCode = Running

RewriteInit ==
    /\ ClassifyIdle
    /\ GenIdle
    /\ PageIdle
    /\ TokenizeIdle
    /\ MainIdle
    /\ \E text \in RewriteTexts, list \in Arrangements(EntityPool, MaxSpans) :
           rwTweet = TweetOf(text, list)
    /\ formatted = Returned("")
    /\ firstFormatted = Returned("")
    /\ rwPc = "ready"

FormatTweet ==
    /\ rwPc = "ready"
    /\ formatted' = formatTweetText(rwTweet)
    /\ firstFormatted' = formatTweetText(rwTweet)
    /\ rwPc' = "done"
    /\ UNCHANGED rwTweet

Relist ==
    /\ rwPc \in {"done", "relisted"}
    /\ \E t \in Relistings(rwTweet) \ {rwTweet} :
           /\ rwTweet' = t
           /\ formatted' = formatTweetText(t)
    /\ rwPc' = "relisted"
    /\ UNCHANGED firstFormatted

RewriteNext ==
    \/ FormatTweet /\ UNCHANGED <<classifyVars, genVars, pageVars, tokenizeVars, mainVars>>
    \/ Relist /\ UNCHANGED <<classifyVars, genVars, pageVars, tokenizeVars, mainVars>>

SpecRewrite == RewriteInit /\ [][RewriteNext]_vars

(***************************************************************************)
(* Specification of the classifier: getTweetType on one record.            *)
(***************************************************************************)
ClassifyTexts == {"", "hello", "RT @alice hi", "RT alice", "rt @alice"}

ClassifyInit ==
    /\ RewriteIdle
    /\ GenIdle
    /\ PageIdle
    /\ TokenizeIdle
    /\ MainIdle
    /\ clsTweet \in [full_text : ClassifyTexts,
                     retweeted_status : {Absent, Null, "rs"},
                     in_reply_to_status_id_str : {Absent, Null, "7"},
                     in_reply_to_user_id_str : {Absent, Null, "9"}]
    /\ tweetType = "unset"

Classify ==
    /\ tweetType = "unset"
    /\ tweetType' = getTweetType(clsTweet)
    /\ UNCHANGED clsTweet

ClassifyNext == Classify /\ UNCHANGED <<rewriteVars, genVars, pageVars, tokenizeVars, mainVars>>

SpecClassify == ClassifyInit /\ [][ClassifyNext]_vars

(***************************************************************************)
(* Specification of the generator: generateHtml on one collection.         *)
(***************************************************************************)
NoEntities == [user_mentions |-> <<>>, urls |-> <<>>, hashtags |-> <<>>, media |-> <<>>]

Tweet(id, text, created, likes, retweeted, replyTo, entities) ==
    [id_str |-> id, full_text |-> text, created_at |-> created,
     favorite_count |-> likes, retweeted_status |-> retweeted,
     in_reply_to_status_id_str |-> replyTo, in_reply_to_user_id_str |-> Absent,
     entities |-> entities]

\* Tweets of an export: two with the same instant, one with a date that does
\* not parse and one without created_at, one whose mention has no indices
\* (formatTweetText throws on it) and one that has both defects.
GenPool ==
    { Tweet("1", "Running fast", "Mon Aug 06 00:51:29 +0000 2018", "5",
            Absent, Absent, NoEntities),
      Tweet("2", "jog", "Mon Aug 06 00:51:29 +0000 2018", "0",
            Absent, Null, NoEntities),
      Tweet("3", "RT @bob cats", "Tue Aug 07 12:00:00 +0000 2018", "10",
            Absent, Absent, NoEntities),
      Tweet("4", "I <b>walked</b> home", "Mon Aug 06 23:30:00 +0000 2018", "10",
            Absent, "7", NoEntities),
      Tweet("5", "old", "yesterday", "99", Absent, Absent, NoEntities),
      Tweet("6", "undated", Absent, Absent, "rs", Absent, NoEntities),
      Tweet("7", "hi @al", "Sun Aug 05 00:00:00 +0000 2018", "0", Absent, Absent,
            [NoEntities EXCEPT !.user_mentions = <<NoIndices(Mention(0, 0, "al"))>>]),
      Tweet("8", "yo @al", "not a date", "7", Absent, Absent,
            [NoEntities EXCEPT !.user_mentions = <<NoIndices(Mention(0, 0, "al"))>>]) }

GenInit ==
    /\ RewriteIdle
    /\ ClassifyIdle
    /\ PageIdle
    /\ TokenizeIdle
    /\ MainIdle
    /\ genTweets \in Arrangements(GenPool, MaxTweets)
    /\ html = [kind |-> "none"]

Generate ==
    /\ html.kind = "none"
    /\ html' = generateHtml(genTweets)
    /\ UNCHANGED genTweets

GenNext == Generate /\ UNCHANGED <<rewriteVars, classifyVars, pageVars, tokenizeVars, mainVars>>

SpecGen == GenInit /\ [][GenNext]_vars

(***************************************************************************)
(* Specification of the page: the script of the generated archive page     *)
(* from the moment it has run (line 744 included), under the events of     *)
(* the viewer and the timers of the window.                                *)
(***************************************************************************)
\* Line 763: the delay handed to setTimeout, in milliseconds.
Window == 150

\* The step time advances by.
TickMs == Window \div 2

\* The collections the loaded page was generated from.
PageInputs ==
    { << Tweet("1", "Running fast", "Mon Aug 06 00:51:29 +0000 2018", "5",
               Absent, Absent, NoEntities),
         Tweet("2", "jog", "Mon Aug 06 00:51:29 +0000 2018", "0",
               Absent, Absent, NoEntities),
         Tweet("3", "RT @bob cats", "Sun Aug 05 00:00:00 +0000 2018", "10",
               Absent, Absent, NoEntities),
         Tweet("9", "cats sleeping", "Mon Aug 06 23:30:00 +0000 2018", "10",
               Absent, Absent, NoEntities) >>,
      << Tweet("5", "old", "yesterday", "99", Absent, Absent, NoEntities),
         Tweet("4", "I <b>walked</b> home", "Tue Aug 07 12:00:00 +0000 2018", "5",
               Absent, "7", NoEntities) >> }

\* The viewer's time zone: UTC-5, UTC, UTC+2.
Zones == {0 - 5 * 3600, 0, 2 * 3600}

\* What the viewer types into the search box.
Queries == {"", " Run", "runner", "runner jog"}

\* The positions the viewer leaves the likes slider at.
SliderStops == {0, 5, 10}

\* tokenize, looked up for the texts of the model instead of computed anew
\* at every call (the table is computed by tokenize itself).
KnownTexts ==
    UNION {{IndexEntry([date |-> NaN, tweet |-> input[i]]).text : i \in DOMAIN input} :
               input \in PageInputs}
        \cup {Trim(q) : q \in Queries} \cup Queries
TokenTable == [text \in KnownTexts |-> tokenize(text)]
Tokens(text) == IF text \in KnownTexts THEN TokenTable[text] ELSE tokenize(text)

\* new Date(day).getTime(): a date-only string is read as UTC midnight.
FromInstant(day) == DayStart(day)

\* new Date(day + 'T23:59:59').getTime(): a date-time string without offset
\* is read as local time, which is tz seconds ahead of UTC.
ToInstant(day, zone) == DayStart(day) + (23 * 3600 + 59 * 60 + 59) - zone

\* Mutant: a query token matches only an index token that contains it.
TokenMatchesOneWay(tt, qt) == Includes(tt, qt)

\* Line 710: tt.includes(qt) || qt.includes(tt).
TokenMatches(tt, qt) == Includes(tt, qt) \/ Includes(qt, tt)

\* Lines 694, 706-712: the search criterion for one article.
SearchMatch(page, article, queryTokens) ==
    LET found == {k \in DOMAIN page.searchIndex : page.searchIndex[k].id = article.id}
    IN IF Len(queryTokens) > 0 /\ found # {}
       THEN LET indexEntry == page.searchIndex[CHOOSE k \in found : \A m \in found : k <= m]
                textTokens == Tokens(indexEntry.text)
            IN \A q \in DOMAIN queryTokens :
                   \E t \in DOMAIN textTokens :
                       TokenMatches(textTokens[t], queryTokens[q])
       ELSE TRUE

\* Lines 691-714: whether one article is shown.
Shown(page, article, zone, active, query, from, to, minLikesStr) ==
    LET queryTokens == Tokens(Trim(query))
        minLikes    == OrZero(ParseInt(minLikesStr))
        timestamp   == ParseInt(article.timestamp).n
        likes       == OrZero(ParseInt(article.likes))
        typeMatch   == article.type = active
        dateMatch   == /\ timestamp >= (IF from # "" THEN FromInstant(from) ELSE 0)
                       /\ (to # "" => timestamp <= ToInstant(to, zone))
        likesMatch  == likes >= minLikes
    IN typeMatch /\ dateMatch /\ likesMatch /\ SearchMatch(page, article, queryTokens)

\* Lines 723-729: the key the comparator orders by, descending.
SortKey(article, sortMode) ==
    IF sortMode = "likes" THEN ParseInt(article.likes).n
    ELSE ParseInt(article.timestamp).n

\* Mutant: insertion in front of the elements with an equal key.
RECURSIVE InsertByKeyDescUnstable(_, _, _, _)
InsertByKeyDescUnstable(page, sortMode, sorted, i) ==
    IF sorted = <<>> THEN <<i>>
    ELSE IF SortKey(page.tweetsHtml[Head(sorted)], sortMode)
                > SortKey(page.tweetsHtml[i], sortMode)
         THEN <<Head(sorted)>> \o InsertByKeyDescUnstable(page, sortMode, Tail(sorted), i)
         ELSE <<i>> \o sorted

\* Insertion behind every element whose key is >= the key of i (a stable sort).
RECURSIVE InsertByKeyDesc(_, _, _, _)
InsertByKeyDesc(page, sortMode, sorted, i) ==
    IF sorted = <<>> THEN <<i>>
    ELSE IF SortKey(page.tweetsHtml[Head(sorted)], sortMode)
                >= SortKey(page.tweetsHtml[i], sortMode)
         THEN <<Head(sorted)>> \o InsertByKeyDesc(page, sortMode, Tail(sorted), i)
         ELSE <<i>> \o sorted

\* [...tweets].sort(...): a stable sort of the tweets array, which keeps the
\* order of the render list.
RECURSIVE SortedTweets(_, _, _, _)
SortedTweets(page, sortMode, sorted, next) ==
    IF next > Len(page.tweetsHtml) THEN sorted
    ELSE SortedTweets(page, sortMode, InsertByKeyDesc(page, sortMode, sorted, next), next + 1)

\* filterAndSort: the class hidden of every article, the order of the
\* articles in the container and the class hidden of #no-results.
filterAndSort(page, zone, active, query, from, to, minLikesStr, sortMode) ==
    LET show(i) == Shown(page, page.tweetsHtml[i], zone, active, query, from, to, minLikesStr)
        visibleCount == Cardinality({i \in DOMAIN page.tweetsHtml : show(i)})
    IN [hidden          |-> [i \in DOMAIN page.tweetsHtml |-> ~show(i)],
        domOrder        |-> SortedTweets(page, sortMode, <<>>, 1),
        noResultsHidden |-> visibleCount > 0]

Display(r) ==
    /\ hidden' = r.hidden
    /\ domOrder' = r.domOrder
    /\ noResultsHidden' = r.noResultsHidden
    /\ stale' = FALSE

PageInit ==
    /\ RewriteIdle
    /\ ClassifyIdle
    /\ TokenizeIdle
    /\ MainIdle
    /\ genTweets \in PageInputs
    /\ html = generateHtml(genTweets)
    /\ html.kind = "archive"
    /\ tz \in Zones
    /\ activeType = "post"
    /\ searchValue = ""
    /\ dateFromValue = html.dateFrom
    /\ dateToValue = html.dateTo
    /\ minLikesValue = "0"
    /\ minLikesLabel = "0"
    /\ sortValue = "date"
    /\ LET r == filterAndSort(html, tz, "post", "", html.dateFrom, html.dateTo, "0", "date")
       IN /\ hidden = r.hidden
          /\ domOrder = r.domOrder
          /\ noResultsHidden = r.noResultsHidden
    /\ timers = {}
    /\ searchTimeout = 0
    /\ stale = FALSE

\* The values the viewer gives a date control: none, or a day of the archive.
DayChoices ==
    {""} \cup {d \in Days : /\ DayStart(html.dateFrom) <= DayStart(d)
                             /\ DayStart(d) <= DayStart(html.dateTo)}

\* Lines 738-741.
SliderInput ==
    \E v \in {x \in SliderStops : x <= html.maxLikes} :
        /\ NumberToString(v) # minLikesValue
        /\ minLikesValue' = NumberToString(v)
        /\ minLikesLabel' = NumberToString(v)
        /\ Display(filterAndSort(html, tz, activeType, searchValue, dateFromValue,
                                 dateToValue, NumberToString(v), sortValue))
        /\ UNCHANGED <<activeType, searchValue, dateFromValue, dateToValue, sortValue,
                       timerVars, tz, genVars>>

\* Mutant: the click handler sets activeType and does not call filterAndSort.
TabClickNoRecompute ==
    \E t \in Types :
        /\ activeType' = t
        /\ UNCHANGED <<searchValue, dateFromValue, dateToValue, minLikesValue,
                       minLikesLabel, sortValue, displayVars, stale, timerVars,
                       tz, genVars>>

\* Lines 747-754.
TabClick ==
    \E t \in Types :
        /\ activeType' = t
        /\ Display(filterAndSort(html, tz, t, searchValue, dateFromValue,
                                 dateToValue, minLikesValue, sortValue))
        /\ UNCHANGED <<searchValue, dateFromValue, dateToValue, minLikesValue,
                       minLikesLabel, sortValue, timerVars, tz, genVars>>

\* Line 757.
SortChange ==
    \E m \in {"date", "likes"} \ {sortValue} :
        /\ sortValue' = m
        /\ Display(filterAndSort(html, tz, activeType, searchValue, dateFromValue,
                                 dateToValue, minLikesValue, m))
        /\ UNCHANGED <<activeType, searchValue, dateFromValue, dateToValue,
                       minLikesValue, minLikesLabel, timerVars, tz, genVars>>

\* Line 766.
DateFromChange ==
    \E d \in DayChoices \ {dateFromValue} :
        /\ dateFromValue' = d
        /\ Display(filterAndSort(html, tz, activeType, searchValue, d,
                                 dateToValue, minLikesValue, sortValue))
        /\ UNCHANGED <<activeType, searchValue, dateToValue, minLikesValue,
                       minLikesLabel, sortValue, timerVars, tz, genVars>>

\* Line 767.
DateToChange ==
    \E d \in DayChoices \ {dateToValue} :
        /\ dateToValue' = d
        /\ Display(filterAndSort(html, tz, activeType, searchValue, dateFromValue,
                                 d, minLikesValue, sortValue))
        /\ UNCHANGED <<activeType, searchValue, dateFromValue, minLikesValue,
                       minLikesLabel, sortValue, timerVars, tz, genVars>>

\* clearTimeout(id): the timer with that id, if any, is no longer active.
ClearTimeout(active, id) == {t \in active : t.id # id}

\* The id setTimeout returns: a positive integer that no active timer has.
FreshTimerId(active) ==
    CHOOSE id \in 1..(Cardinality(active) + 1) : \A t \in active : t.id # id

\* setTimeout(filterAndSort, 150) on the active timers: the new timers and
\* the id returned.
SetTimeout(active) ==
    [timers |-> active \cup {[id |-> FreshTimerId(active), left |-> Window]},
     id     |-> FreshTimerId(active)]

\* Mutant: the pending timer is not cleared.
SearchTimerNoClear(active, handle) == SetTimeout(active)

\* Lines 762-763: clearTimeout(searchTimeout);
\* searchTimeout = setTimeout(filterAndSort, 150).
SearchTimer(active, handle) == SetTimeout(ClearTimeout(active, handle))

\* Lines 761-764: the viewer changes the text of the search box.
SearchInput ==
    \E q \in Queries \ {searchValue} :
        /\ searchValue' = q
        /\ timers' = SearchTimer(timers, searchTimeout).timers
        /\ searchTimeout' = SearchTimer(timers, searchTimeout).id
        /\ stale' = TRUE
        /\ UNCHANGED <<activeType, dateFromValue, dateToValue, minLikesValue,
                       minLikesLabel, sortValue, displayVars, tz, genVars>>

\* Time passes while no handler runs.
Tick ==
    /\ \E t \in timers : t.left > 0
    /\ timers' = {[t EXCEPT !.left = Max(0, t.left - TickMs)] : t \in timers}
    /\ UNCHANGED <<controlVars, displayVars, searchTimeout, stale, tz, genVars>>

\* A timer whose delay has passed runs its callback, filterAndSort.
TimerFire ==
    \E t \in timers :
        /\ t.left = 0
        /\ timers' = timers \ {t}
        /\ Display(filterAndSort(html, tz, activeType, searchValue, dateFromValue,
                                 dateToValue, minLikesValue, sortValue))
        /\ UNCHANGED <<controlVars, searchTimeout, tz, genVars>>

PageNext ==
    \/ SliderInput /\ UNCHANGED <<rewriteVars, classifyVars, tokenizeVars, mainVars>>
    \/ TabClick /\ UNCHANGED <<rewriteVars, classifyVars, tokenizeVars, mainVars>>
    \/ SortChange /\ UNCHANGED <<rewriteVars, classifyVars, tokenizeVars, mainVars>>
    \/ DateFromChange /\ UNCHANGED <<rewriteVars, classifyVars, tokenizeVars, mainVars>>
    \/ DateToChange /\ UNCHANGED <<rewriteVars, classifyVars, tokenizeVars, mainVars>>
    \/ SearchInput /\ UNCHANGED <<rewriteVars, classifyVars, tokenizeVars, mainVars>>
    \/ Tick /\ UNCHANGED <<rewriteVars, classifyVars, tokenizeVars, mainVars>>
    \/ TimerFire /\ UNCHANGED <<rewriteVars, classifyVars, tokenizeVars, mainVars>>

SpecPage == PageInit /\ [][PageNext]_vars

(***************************************************************************)
(* tokenize and stem applied to texts                                      *)
(***************************************************************************)
TokenizeWords ==
    {"running", "walked", "hashes", "cats", "quickly", "class", "ing", "s",
     "Ed!", "it's", "C3PO", "--", "sings", "Glasses"}

\* The white space between two words, and around the text when it is padded.
Separators == {" ", " \n\t"}

RECURSIVE Join(_, _)
Join(words, sep) ==
    IF Len(words) = 0 THEN ""
    ELSE IF Len(words) = 1 THEN words[1]
    ELSE words[1] \o sep \o Join(Tail(words), sep)

WordLists == UNION {[1..n -> TokenizeWords] : n \in 1..MaxWords}

TokenizeTexts ==
    {Join(ws, sep) : ws \in WordLists, sep \in Separators}
        \cup {sep \o Join(ws, sep) \o sep : ws \in WordLists, sep \in Separators}

TokenizeInit ==
    /\ RewriteIdle
    /\ ClassifyIdle
    /\ GenIdle
    /\ PageIdle
    /\ MainIdle
    /\ tkText \in TokenizeTexts
    /\ tkTokens = <<>>
    /\ tkPc = "ready"

\* tokenize(text).
Tokenize ==
    /\ tkPc = "ready"
    /\ tkTokens' = tokenize(tkText)
    /\ tkPc' = "tokenized"
    /\ UNCHANGED tkText

\* stem(word).
Stem ==
    /\ tkPc = "ready"
    /\ tkTokens' = <<stem(tkText)>>
    /\ tkPc' = "stemmed"
    /\ UNCHANGED tkText

TokenizeNext ==
    \/ Tokenize /\ UNCHANGED <<rewriteVars, classifyVars, genVars, pageVars, mainVars>>
    \/ Stem /\ UNCHANGED <<rewriteVars, classifyVars, genVars, pageVars, mainVars>>

SpecTokenize == TokenizeInit /\ [][TokenizeNext]_vars

(***************************************************************************)
(* main: one run of the generator                                          *)
(***************************************************************************)
\* The tweets a tweets.js that parses may hold: none, one or two records of
\* the pool with ids 1 (dated), 4 (dated reply), 5 (undated) and 7 (dated,
\* with a mention that has no indices).
MainPool == {t \in GenPool : t.id_str \in {"1", "4", "5", "7"}}

MainCollections ==
    {<<>>} \cup {<<t>> : t \in MainPool}
           \cup {p \in MainPool \X MainPool : p[1] # p[2]}

\* What main finds where tweets.js should be: nothing, a file that cannot be
\* read, a file that is no JavaScript, or a file with a collection.
MainSources ==
    {[state |-> "missing"], [state |-> "unreadable"], [state |-> "malformed"]}
        \cup {[state |-> "ok", tweets |-> c] : c \in MainCollections}

\* Entries of the media directory: files, a subdirectory, a file that
\* copyFileSync cannot copy.
MediaEntries ==
    {[name |-> "a.jpg", isFile |-> TRUE, copies |-> TRUE],
     [name |-> "sub", isFile |-> FALSE, copies |-> TRUE],
     [name |-> "c.mp4", isFile |-> TRUE, copies |-> FALSE]}

MainInit ==
    /\ RewriteIdle
    /\ ClassifyIdle
    /\ GenIdle
    /\ PageIdle
    /\ TokenizeIdle
    /\ mainPc = "locate"
    /\ source \in MainSources
    /\ mediaDir \in {NoMediaDir} \cup {[found |-> TRUE, entries |-> es] : es \in SUBSET MediaEntries}
    /\ toCopy = {}
    /\ disk = EmptyDisk
    /\ exitCode = Running

\* process.exit(code), or the exit of node on an uncaught exception.
Exit(code) ==
    /\ mainPc' = "exited"
    /\ exitCode' = code

\* Lines 808-817: look for tweets.js; console.error and exit(1) without it.
Locate ==
    /\ mainPc = "locate"
    /\ IF source.state = "missing"
       THEN Exit(1)
       ELSE mainPc' = "read" /\ UNCHANGED exitCode
    /\ UNCHANGED <<source, mediaDir, toCopy, disk, genVars>>

\* Line 829: parseTweetsJs. readFileSync throws on a file that cannot be
\* read, vm.runInContext on one that is no JavaScript; main catches nothing.
Read ==
    /\ mainPc = "read"
    /\ IF source.state = "ok"
       THEN /\ genTweets' = source.tweets
            /\ mainPc' = "mkdirOutput"
            /\ UNCHANGED exitCode
       ELSE Exit(1) /\ UNCHANGED genTweets
    /\ UNCHANGED <<source, mediaDir, toCopy, disk, html>>

\* Line 833: fs.mkdirSync(outputPath, { recursive: true }).
MkdirOutput ==
    /\ mainPc = "mkdirOutput"
    /\ disk' = [disk EXCEPT !.outputDir = TRUE]
    /\ mainPc' = "mkdirImages"
    /\ UNCHANGED <<source, mediaDir, toCopy, exitCode, genVars>>

\* Lines 834-839: fs.mkdirSync(imagesPath, ...); readdirSync(mediaDir) when
\* there is a media directory.
MkdirImages ==
    /\ mainPc = "mkdirImages"
    /\ disk' = [disk EXCEPT !.imagesDir = TRUE]
    /\ toCopy' = IF mediaDir.found THEN mediaDir.entries ELSE {}
    /\ mainPc' = "copy"
    /\ UNCHANGED <<source, mediaDir, exitCode, genVars>>

\* Lines 841-846: one turn of the copy loop; copyFileSync throws on a file
\* it cannot copy.
CopyMedia ==
    /\ mainPc = "copy"
    /\ \E e \in toCopy :
           IF e.isFile /\ ~e.copies
           THEN Exit(1) /\ UNCHANGED <<toCopy, disk>>
           ELSE /\ toCopy' = toCopy \ {e}
                /\ disk' = IF e.isFile
                           THEN [disk EXCEPT !.images = @ \cup {e.name}]
                           ELSE disk
                /\ UNCHANGED <<mainPc, exitCode>>
    /\ UNCHANGED <<source, mediaDir, genVars>>

\* Line 850: generateHtml(tweets, ...), once the copy loop is over; an
\* exception of generateHtml ends the process.
GenerateArchive ==
    /\ mainPc = "copy"
    /\ toCopy = {}
    /\ html' = generateHtml(genTweets)
    /\ IF html'.kind = "threw"
       THEN Exit(1)
       ELSE mainPc' = "write" /\ UNCHANGED exitCode
    /\ UNCHANGED <<source, mediaDir, toCopy, disk, genTweets>>

\* Lines 853-857: fs.writeFileSync(htmlFile, html); main returns.
WriteIndex ==
    /\ mainPc = "write"
    /\ disk' = [disk EXCEPT !.indexWritten = TRUE, !.indexHtml = html]
    /\ Exit(0)
    /\ UNCHANGED <<source, mediaDir, toCopy, genVars>>

MainNext ==
    \/ Locate /\ UNCHANGED <<rewriteVars, classifyVars, pageVars, tokenizeVars>>
    \/ Read /\ UNCHANGED <<rewriteVars, classifyVars, pageVars, tokenizeVars>>
    \/ MkdirOutput /\ UNCHANGED <<rewriteVars, classifyVars, pageVars, tokenizeVars>>
    \/ MkdirImages /\ UNCHANGED <<rewriteVars, classifyVars, pageVars, tokenizeVars>>
    \/ CopyMedia /\ UNCHANGED <<rewriteVars, classifyVars, pageVars, tokenizeVars>>
    \/ GenerateArchive /\ UNCHANGED <<rewriteVars, classifyVars, pageVars, tokenizeVars>>
    \/ WriteIndex /\ UNCHANGED <<rewriteVars, classifyVars, pageVars, tokenizeVars>>

SpecMain == MainInit /\ [][MainNext]_vars

(***************************************************************************)
(* Properties of getTweetType                                              *)
(***************************************************************************)
IsRepost(t) == StartsWith(t.full_text, "RT @") \/ Truthy(t.retweeted_status)
HasReplyTarget(t) ==
    Truthy(t.in_reply_to_status_id_str) \/ Truthy(t.in_reply_to_user_id_str)

\* C2: getTweetType returns exactly one of post, reply, retweet; a record
\* whose text begins with "RT @" or that carries a repost reference is a
\* retweet even with a reply target; otherwise a record with a reply target
\* is a reply; otherwise it is a post.
C2_FirstMatchWins ==
    tweetType # "unset" =>
        /\ tweetType \in Types
        /\ IsRepost(clsTweet) => tweetType = "retweet"
        /\ ~IsRepost(clsTweet) /\ HasReplyTarget(clsTweet) => tweetType = "reply"
        /\ ~IsRepost(clsTweet) /\ ~HasReplyTarget(clsTweet) => tweetType = "post"

\* A record "RT @..." that also carries a reply target has been classified.
C2_Witness ==
    /\ tweetType = "retweet"
    /\ StartsWith(clsTweet.full_text, "RT @")
    /\ clsTweet.retweeted_status = Absent
    /\ HasReplyTarget(clsTweet)

(***************************************************************************)
(* Properties of formatTweetText                                           *)
(***************************************************************************)
Specials == {"<", ">", "\"", "'"}
EscapeNames == {"amp;", "lt;", "gt;", "quot;", "#039;"}

\* Every span has indices, lies within the text, is not reversed or empty,
\* and no two spans overlap.
WellFormed(t) ==
    LET all == AllEntities(t)
    IN /\ \A i \in DOMAIN all :
              /\ all[i].hasIndices
              /\ 0 <= all[i].s /\ all[i].s < all[i].e /\ all[i].e <= Len(t.full_text)
       /\ \A i, j \in DOMAIN all :
              i # j => all[i].e <= all[j].s \/ all[j].e <= all[i].s

\* The body text left outside the spans: every span replaced by nothing.
Residual(t) ==
    ApplyReplacements(t.full_text,
        SortFrom(<<>>, [i \in DOMAIN AllEntities(t) |->
                           [start |-> AllEntities(t)[i].s,
                            end |-> AllEntities(t)[i].e,
                            replacement |-> ""]]))

\* Occurrences of the character c in the markup the rewriter injects for t:
\* one <a ...>...</a> per mention, link and hashtag, one <br> per line break
\* left in the body text.
InjectedCount(t, c) ==
    LET anchors == Len(t.entities.user_mentions) + Len(t.entities.urls)
                       + Len(t.entities.hashtags)
        breaks == CountChar(Residual(t), "\n")
    IN CASE c = "<" -> 2 * anchors + breaks
         [] c = ">" -> 2 * anchors + breaks
         [] c = "\"" -> 8 * anchors
         [] OTHER -> 0

\* C4: the output of formatTweetText holds no unescaped < > & " ' outside
\* the markup the rewriter injects (stated for tweets with well-formed
\* spans: every < > " ' of the output belongs to the injected anchors and
\* breaks, every & begins a character reference).
C4_NoUnescapedOutsideMarkup ==
    (rwPc # "ready" /\ WellFormed(rwTweet)) =>
        /\ ~formatted.threw
        /\ \A c \in Specials :
               CountChar(formatted.text, c) = InjectedCount(rwTweet, c)
        /\ \A i \in 1..Len(formatted.text) :
               SubSeq(formatted.text, i, i) = "&" =>
                   \E name \in EscapeNames :
                       SubSeq(formatted.text, i + 1, i + Len(name)) = name

BadSpan(ent, text) ==
    \/ ~ent.hasIndices
    \/ ent.s < 0 \/ ent.s > Len(text)
    \/ ent.e < 0 \/ ent.e > Len(text)
    \/ ent.s > ent.e

RemoveAt(list, i) == SubSeq(list, 1, i - 1) \o SubSeq(list, i + 1, Len(list))

\* The tweets obtained from t by removing one out-of-range, reversed or
\* malformed span.
WithoutOneBadSpan(t) ==
    LET E == t.entities
    IN {[t EXCEPT !.entities.user_mentions = RemoveAt(E.user_mentions, i)] :
            i \in {k \in DOMAIN E.user_mentions : BadSpan(E.user_mentions[k], t.full_text)}}
       \cup {[t EXCEPT !.entities.urls = RemoveAt(E.urls, i)] :
            i \in {k \in DOMAIN E.urls : BadSpan(E.urls[k], t.full_text)}}
       \cup {[t EXCEPT !.entities.hashtags = RemoveAt(E.hashtags, i)] :
            i \in {k \in DOMAIN E.hashtags : BadSpan(E.hashtags[k], t.full_text)}}
       \cup {[t EXCEPT !.entities.media = RemoveAt(E.media, i)] :
            i \in {k \in DOMAIN E.media : BadSpan(E.media[k], t.full_text)}}

\* C5: an out-of-range, reversed or malformed span is a no-op: formatTweetText
\* raises no error and returns what it returns with that span removed.
C5_BadSpanIsNoOp ==
    rwPc # "ready" =>
        \A t \in WithoutOneBadSpan(rwTweet) :
            /\ ~formatted.threw
            /\ formatted = formatTweetText(t)

\* C6 as stated: any order of the spans within the collections gives the
\* same output.
C6_AnyOrderSameOutput ==
    rwPc = "relisted" => formatted = firstFormatted

DistinctStarts(list) ==
    \A i, j \in DOMAIN list :
        i # j => list[i].hasIndices /\ list[j].hasIndices /\ list[i].s # list[j].s

\* C6 amended: when no two spans of one collection have the same start
\* index, any order of the spans within the collections gives the same
\* output.
C6_DistinctStartsSameOutput ==
    ( /\ rwPc = "relisted"
      /\ DistinctStarts(rwTweet.entities.user_mentions)
      /\ DistinctStarts(rwTweet.entities.urls)
      /\ DistinctStarts(rwTweet.entities.hashtags)
      /\ DistinctStarts(rwTweet.entities.media) )
    => formatted = firstFormatted

\* Two mentions with distinct starts have been listed in another order and
\* rewritten again.
C6_Witness ==
    /\ rwPc = "relisted"
    /\ Len(rwTweet.entities.user_mentions) = 2
    /\ rwTweet.entities.user_mentions[1].s < rwTweet.entities.user_mentions[2].s
    /\ DistinctStarts(rwTweet.entities.user_mentions)
    /\ ~formatted.threw
    /\ formatted = firstFormatted
    /\ formatted.text # rwTweet.full_text

(***************************************************************************)
(* Properties of generateHtml                                              *)
(***************************************************************************)
\* The positions of the input whose created_at parses to a valid instant.
ValidPositions == {i \in DOMAIN genTweets : ~parseTweetDate(genTweets[i].created_at).nan}

InstantAt(i) == parseTweetDate(genTweets[i].created_at).n

Occurrences(list, id) == Cardinality({k \in DOMAIN list : list[k].id = id})

\* What the archive page holds is what the records with a valid timestamp,
\* and they alone, contribute.
ContributionsExact ==
    /\ \A i \in DOMAIN genTweets :
           LET n == IF i \in ValidPositions THEN 1 ELSE 0
           IN /\ Occurrences(html.tweetsHtml, genTweets[i].id_str) = n
              /\ Occurrences(html.searchIndex, genTweets[i].id_str) = n
    /\ Len(html.tweetsHtml) = Cardinality(ValidPositions)
    /\ Len(html.searchIndex) = Cardinality(ValidPositions)
    /\ \A t \in Types :
           html.typeCounts[t] =
               Cardinality({i \in ValidPositions : getTweetType(genTweets[i]) = t})
    /\ \A i \in ValidPositions : html.maxLikes >= Likes(genTweets[i])
    /\ \/ html.maxLikes = 0
       \/ \E i \in ValidPositions : html.maxLikes = Likes(genTweets[i])
    /\ \E i \in ValidPositions :
           /\ html.dateFrom = formatDate(InstantAt(i))
           /\ \A j \in ValidPositions : InstantAt(i) <= InstantAt(j)
    /\ \E i \in ValidPositions :
           /\ html.dateTo = formatDate(InstantAt(i))
           /\ \A j \in ValidPositions : InstantAt(i) >= InstantAt(j)

\* C7: for every input collection generateHtml does not fail, the records
\* whose created_at does not parse contribute nothing (no article, no index
\* entry, no count, no like maximum, no date bound) and every record with a
\* valid timestamp contributes one article, one index entry and one unit of
\* one type count.
C7_InvalidDatesDropped ==
    html.kind # "none" =>
        /\ html.kind # "threw"
        /\ html.kind = "empty" => ValidPositions = {}
        /\ html.kind = "archive" => ContributionsExact

\* The same on the collections on which formatTweetText raises no error.
GenDropsInvalidDatesUnlessFormatThrows ==
    html.kind # "none" =>
        /\ html.kind = "threw" =>
               \E i \in ValidPositions : formatTweetText(genTweets[i]).threw
        /\ html.kind = "empty" => ValidPositions = {}
        /\ html.kind = "archive" => ContributionsExact

PositionOf(id) == CHOOSE i \in DOMAIN genTweets : genTweets[i].id_str = id

\* C8: the render list is ordered by timestamp descending, records with
\* equal timestamps keep their input order, and the search index lists the
\* same records in the same order.
C8_RenderListStableDescending ==
    html.kind = "archive" =>
        /\ \A i, j \in DOMAIN html.tweetsHtml :
               i < j =>
                   LET a == html.tweetsHtml[i]
                       b == html.tweetsHtml[j]
                   IN /\ ParseInt(a.timestamp).n >= ParseInt(b.timestamp).n
                      /\ ParseInt(a.timestamp).n = ParseInt(b.timestamp).n
                             => PositionOf(a.id) < PositionOf(b.id)
        /\ DOMAIN html.searchIndex = DOMAIN html.tweetsHtml
        /\ \A i \in DOMAIN html.tweetsHtml :
               /\ html.searchIndex[i].id = html.tweetsHtml[i].id
               /\ Num(html.searchIndex[i].timestamp) = ParseInt(html.tweetsHtml[i].timestamp)
               /\ html.searchIndex[i].timestamp = InstantAt(PositionOf(html.tweetsHtml[i].id))

\* Three records T1 > T2 = T3, not given in that order, have been rendered.
C8_Witness ==
    /\ html.kind = "archive"
    /\ Len(html.tweetsHtml) = 3
    /\ genTweets[1].id_str = "2" /\ genTweets[2].id_str = "3" /\ genTweets[3].id_str = "1"
    /\ html.tweetsHtml[1].id = "3"
    /\ html.tweetsHtml[2].id = "2"
    /\ html.tweetsHtml[3].id = "1"
    /\ html.tweetsHtml[2].timestamp = html.tweetsHtml[3].timestamp

\* C9 as stated: on a collection that is empty, or empty once the records
\* with unparseable timestamps are dropped, generateHtml does not fail and
\* its output has zero rendered items, type counts and a like maximum that
\* are all 0, and the empty-state indicator shown.
C9_EmptyOutputHasZeroStats ==
    (html.kind # "none" /\ ValidPositions = {}) =>
        /\ html.kind # "threw"
        /\ html.kind = "archive" => html.tweetsHtml = <<>> /\ ~html.noResultsHidden
        /\ html.kind = "archive"
        /\ \A t \in Types : html.typeCounts[t] = 0
        /\ html.maxLikes = 0

\* C9 amended: on such a collection generateHtml does not fail and returns
\* the fixed page of line 165: no rendered item, the message "No tweets
\* found." always shown, and no type count, like maximum, search index or
\* script at all.
C9_EmptyOutputIsFixedPage ==
    (html.kind # "none" /\ ValidPositions = {}) =>
        /\ html.kind # "threw"
        /\ html = EmptyPage
        /\ DOMAIN html = {"kind", "body"}

\* A collection that becomes empty once its undated records are dropped has
\* been generated.
C9_Witness ==
    /\ Len(genTweets) = 2
    /\ ValidPositions = {}
    /\ \E i \in DOMAIN genTweets : ~formatTweetText(genTweets[i]).threw
    /\ \E i \in DOMAIN genTweets : formatTweetText(genTweets[i]).threw
    /\ html = EmptyPage

(***************************************************************************)
(* Properties of the page script                                           *)
(***************************************************************************)
Articles == DOMAIN html.tweetsHtml
InstantOf(i) == ParseInt(html.tweetsHtml[i].timestamp).n
LikesOf(i) == OrZero(ParseInt(html.tweetsHtml[i].likes))
MinLikes == OrZero(ParseInt(minLikesValue))

\* The search criterion as the specification words it: every token of the
\* query is contained in, or contains, some token of the article's index
\* text; no token, no constraint.
SearchCriterion(i) ==
    LET queryTokens == Tokens(searchValue)
        indexTokens == Tokens(html.searchIndex[i].text)
    IN \A q \in DOMAIN queryTokens :
           \E t \in DOMAIN indexTokens :
               \/ Includes(indexTokens[t], queryTokens[q])
               \/ Includes(queryTokens[q], indexTokens[t])

\* The date criterion as the specification words it: the instant lies
\* between the start of the from-day and the end of the to-day.
DayCriterion(i) ==
    /\ dateFromValue # "" => DayStart(dateFromValue) <= InstantOf(i)
    /\ dateToValue # "" => InstantOf(i) < DayStart(dateToValue) + SecondsPerDay

\* C1: after filterAndSort has run, an article is visible iff its type is
\* the active tab, its timestamp lies in [fromDate, toDate] with an empty
\* bound open and the toDate bound covering the whole chosen day, its likes
\* are at least the minimum and it passes the search match.
C1_VisibleIffAllCriteria ==
    ~stale =>
        \A i \in Articles :
            ~hidden[i] <=> /\ html.tweetsHtml[i].type = activeType
                           /\ DayCriterion(i)
                           /\ LikesOf(i) >= MinLikes
                           /\ SearchCriterion(i)

\* The same for a viewer whose clock is on UTC.
VisibleIffAllCriteriaOnUtc == tz = 0 => C1_VisibleIffAllCriteria

\* The date criterion as filterAndSort computes it.
DateMatch(i) ==
    /\ dateFromValue # "" => FromInstant(dateFromValue) <= InstantOf(i)
    /\ dateToValue # "" => InstantOf(i) <= ToInstant(dateToValue, tz)

\* C3: for every query and every article, the search criterion of
\* filterAndSort holds iff every token of the tokenized query is contained
\* in, or contains, some token of the article's tokenized index text (read off
\* the articles that pass the type, date and likes criteria: they are visible
\* iff the search criterion holds).
C3_SearchMatchIsSymmetricContainment ==
    ~stale =>
        \A i \in Articles :
            ( /\ html.tweetsHtml[i].type = activeType
              /\ DateMatch(i)
              /\ LikesOf(i) >= MinLikes )
            => (~hidden[i] <=> SearchCriterion(i))

\* The query " Run" has been searched: "Running fast" is shown, "jog", which
\* passes the other criteria, is not.
C3_Witness ==
    /\ ~stale
    /\ searchValue = " Run"
    /\ \E i, j \in Articles :
           /\ html.searchIndex[i].text = "running fast" /\ ~hidden[i]
           /\ html.searchIndex[j].text = "jog" /\ hidden[j]
           /\ html.tweetsHtml[j].type = activeType
           /\ DateMatch(j)
           /\ LikesOf(j) >= MinLikes

\* What filterAndSort displays for the present values of the controls.
Recomputed ==
    filterAndSort(html, tz, activeType, searchValue, dateFromValue, dateToValue,
                  minLikesValue, sortValue)

\* C10: a keystroke does not recompute but leaves exactly one pending timer
\* with the full delay, so that a pending recompute is cancelled and the
\* window restarted; at most one search timer is pending at any time; a
\* timer-driven recompute runs only when the whole window has passed since
\* the last keystroke, with the text the search box then holds, and no
\* second one follows without a new keystroke.
C10_SearchIsDebounced ==
    /\ [](/\ Cardinality(timers) <= 1
          /\ \A t \in timers : t.id = searchTimeout
          /\ stale => timers # {})
    /\ [][/\ searchValue' # searchValue =>
                 /\ UNCHANGED displayVars
                 /\ timers' = {[id |-> searchTimeout', left |-> Window]}
          /\ (timers # {} /\ timers' = {}) =>
                 /\ \A t \in timers : t.left = 0
                 /\ UNCHANGED controlVars
                 /\ hidden' = Recomputed.hidden
                 /\ domOrder' = Recomputed.domOrder
                 /\ noResultsHidden' = Recomputed.noResultsHidden
                 /\ ~stale'
          /\ (timers = {} /\ timers' # {}) => searchValue' # searchValue]_vars

\* A keystroke has been made, the window has passed and the recompute that
\* is still pending will change what is displayed.
C10_Witness ==
    /\ stale
    /\ \E t \in timers : t.left = 0
    /\ hidden # Recomputed.hidden

\* The key the claim names for the active sort mode.
ModeKey(i) == IF sortValue = "likes" THEN LikesOf(i) ELSE InstantOf(i)

\* C11: after every recompute the displayed order lists every article,
\* visible or hidden, once, by the key of the active sort mode descending
\* (timestamp in by-date mode, likes in by-likes mode), and articles with
\* equal keys keep their order of the render list.
C11_DisplayOrderStableDescending ==
    /\ Len(domOrder) = Len(html.tweetsHtml)
    /\ Range(domOrder) = Articles
    /\ \A p, q \in DOMAIN domOrder :
           p < q =>
               /\ ModeKey(domOrder[p]) >= ModeKey(domOrder[q])
               /\ ModeKey(domOrder[p]) = ModeKey(domOrder[q]) => domOrder[p] < domOrder[q]

\* By likes, the order differs from the render list, two articles tie and
\* one of the two is hidden.
C11_Witness ==
    /\ sortValue = "likes"
    /\ domOrder # [i \in Articles |-> i]
    /\ \E p, q \in DOMAIN domOrder :
           /\ p < q
           /\ ModeKey(domOrder[p]) = ModeKey(domOrder[q])
           /\ ~hidden[domOrder[p]]
           /\ hidden[domOrder[q]]

\* The controls hold the values they have on page load: tab Posts, no query,
\* the date range from the oldest to the newest day of the archive, minimum
\* likes 0, sort by date.
ControlsAtDefaults ==
    /\ activeType = "post"
    /\ searchValue = ""
    /\ dateFromValue = html.dateFrom
    /\ dateToValue = html.dateTo
    /\ minLikesValue = "0"
    /\ sortValue = "date"

\* C12: with the controls at their load-time defaults, as they are when the
\* initial filterAndSort() has run, the default date bounds exclude no
\* article: the visible articles are exactly those of type post.
C12_DefaultsShowEveryPost ==
    (ControlsAtDefaults /\ ~stale) =>
        \A i \in Articles : ~hidden[i] <=> html.tweetsHtml[i].type = "post"

\* The same for a viewer whose clock is on UTC or behind it.
DefaultsShowEveryPostWestOfUtc == tz <= 0 => C12_DefaultsShowEveryPost

(***************************************************************************)
(* Properties of tokenize and stem                                         *)
(***************************************************************************)
\* The maximal runs of characters of text that are not white space, as
\* pairs of their first and last position.
WordSpans(text) ==
    {sp \in (1..Len(text)) \X (1..Len(text)) :
        /\ sp[1] <= sp[2]
        /\ \A i \in sp[1]..sp[2] : ~IsSpace(SubSeq(text, i, i))
        /\ sp[1] = 1 \/ IsSpace(SubSeq(text, sp[1] - 1, sp[1] - 1))
        /\ sp[2] = Len(text) \/ IsSpace(SubSeq(text, sp[2] + 1, sp[2] + 1))}

\* The words of text, in order.
WordsOf(text) ==
    LET spans == WordSpans(text)
        nth(k) == CHOOSE sp \in spans :
                      Cardinality({o \in spans : o[1] < sp[1]}) = k - 1
    IN [k \in 1..Cardinality(spans) |-> SubSeq(text, nth(k)[1], nth(k)[2])]

\* A word in lower case without its characters outside [a-z0-9].
Normalized(word) ==
    LET lower == ToLowerCase(word)
        kept  == {i \in 1..Len(lower) : IsAlnum(SubSeq(lower, i, i))}
        nth(k) == CHOOSE i \in kept : Cardinality({j \in kept : j < i}) = k - 1
        chars == [k \in 1..Cardinality(kept) |-> SubSeq(lower, nth(k), nth(k))]
    IN Join(chars, "")

\* The suffix rules in their fixed order: the suffix, the number of
\* characters dropped, the ending that exempts from the rule.
SuffixRules ==
    << [suffix |-> "ing", drop |-> 3, unless |-> "-"],
       [suffix |-> "ed",  drop |-> 2, unless |-> "-"],
       [suffix |-> "es",  drop |-> 2, unless |-> "-"],
       [suffix |-> "s",   drop |-> 1, unless |-> "ss"],
       [suffix |-> "ly",  drop |-> 2, unless |-> "-"] >>

RuleApplies(r, w) == EndsWith(w, r.suffix) /\ ~EndsWith(w, r.unless)

\* The first rule that applies to w, applied once; w when none applies.
OneSuffixRule(w) ==
    LET applicable == {k \in DOMAIN SuffixRules : RuleApplies(SuffixRules[k], w)}
    IN IF applicable = {} THEN w
       ELSE LET first == CHOOSE k \in applicable : \A m \in applicable : k <= m
            IN SubSeq(w, 1, Len(w) - SuffixRules[first].drop)

NonEmpty(w) == Len(w) > 0

\* The values of stem the specification lists.
StemExamples ==
    [running |-> "runn", walked |-> "walk", hashes |-> "hash", cats |-> "cat",
     quickly |-> "quick", class |-> "class"]

StemAsListed ==
    tkPc = "stemmed" =>
        /\ tkTokens = <<OneSuffixRule(Normalized(tkText))>>
        /\ tkText = "running" => tkTokens = <<StemExamples.running>>
        /\ tkText = "walked" => tkTokens = <<StemExamples.walked>>
        /\ tkText = "hashes" => tkTokens = <<StemExamples.hashes>>
        /\ tkText = "cats" => tkTokens = <<StemExamples.cats>>
        /\ tkText = "quickly" => tkTokens = <<StemExamples.quickly>>
        /\ tkText = "class" => tkTokens = <<StemExamples.class>>

\* C13 as stated: tokenize splits on runs of white space, lower-cases each
\* word, strips its characters outside [a-z0-9] and drops the empty ones,
\* and the stemmer is then applied to each token that is left; stem applies
\* the first suffix rule that matches, once, with the values listed.
C13_DropEmptyThenStem ==
    /\ StemAsListed
    /\ tkPc = "tokenized" =>
           LET tokens == SelectSeq([k \in DOMAIN WordsOf(tkText) |->
                                       Normalized(WordsOf(tkText)[k])], NonEmpty)
           IN tkTokens = [k \in DOMAIN tokens |-> OneSuffixRule(tokens[k])]

\* C13 amended: the empty tokens are dropped after stemming, so that a word
\* the stemmer reduces to nothing ("ing", "s", "Ed!") leaves no token.
C13_StemThenDropEmpty ==
    /\ StemAsListed
    /\ tkPc = "tokenized" =>
           LET stems == [k \in DOMAIN WordsOf(tkText) |->
                            OneSuffixRule(Normalized(WordsOf(tkText)[k]))]
           IN /\ tkTokens = SelectSeq(stems, NonEmpty)
              /\ \A k \in DOMAIN tkTokens : tkTokens[k] # ""

\* A padded text of two words, one of which is all suffix, has been
\* tokenized: one token is left.
C13_Witness ==
    /\ tkPc = "tokenized"
    /\ tkText = " \n\tGlasses \n\ting \n\t"
    /\ tkTokens = <<"glass">>

(***************************************************************************)
(* Properties of main                                                      *)
(***************************************************************************)
\* The collection has been read, rewritten, classified and indexed: the
\* call of generateHtml has returned a page.
Generated == html.kind \in {"archive", "empty"}

\* C14: in every run nothing exists at the output path before the whole
\* collection has been read, rewritten, classified and indexed, a run that
\* ends leaves either nothing or the complete output, and a run whose input
\* is missing or unreadable ends with an error and nothing written.
C14_NoOutputBeforeGeneration ==
    /\ disk # EmptyDisk => Generated
    /\ mainPc = "exited" =>
           \/ disk = EmptyDisk /\ exitCode = 1
           \/ disk.indexWritten /\ disk.indexHtml = html /\ Generated /\ exitCode = 0
    /\ source.state # "ok" => disk = EmptyDisk
    /\ (source.state # "ok" /\ mainPc = "exited") => exitCode = 1

\* What main does guarantee: a missing, unreadable or malformed tweets.js
\* ends the run with status 1 and nothing at the output path, index.html is
\* written last and holds the page of the whole collection, and status 0
\* means index.html was written.
MainWritesIndexLast ==
    /\ source.state # "ok" => disk = EmptyDisk /\ html.kind = "none"
    /\ (source.state # "ok" /\ mainPc = "exited") => exitCode = 1
    /\ disk.indexWritten =>
           /\ Generated
           /\ disk.indexHtml = generateHtml(source.tweets)
           /\ mainPc = "exited"
           /\ exitCode = 0
    /\ exitCode = 0 => disk.indexWritten

(***************************************************************************)
(* Properties of the page's event handlers                                 *)
(***************************************************************************)
\* C15: whenever no search timer is pending, what is displayed (the hidden
\* class of every article, the order of the articles, the hidden class of
\* #no-results) is filterAndSort of the present values of the controls, and
\* the likes label shows the slider's value.
C15_QuiescentDisplayIsRecomputed ==
    timers = {} =>
        /\ hidden = Recomputed.hidden
        /\ domOrder = Recomputed.domOrder
        /\ noResultsHidden = Recomputed.noResultsHidden
        /\ minLikesLabel = minLikesValue
        /\ ~stale

\* Every kind of event has happened, the search timer among them has
\* expired, and every control is off its default.
C15_Witness ==
    /\ timers = {}
    /\ searchTimeout # 0
    /\ searchValue # ""
    /\ activeType # "post"
    /\ sortValue = "likes"
    /\ minLikesValue # "0"
    /\ dateFromValue # html.dateFrom
    /\ dateToValue # html.dateTo

====
